---- MODULE Spec2Model ----
(***************************************************************************)
(* Model of the two RAG scripts of document-portal:                        *)
(*   src/fix_rag_chain.py        (script "fix":   test_fixed_rag)          *)
(*   src/improved_rag_debug.py   (script "debug": test_different_questions)*)
(*                                                                         *)
(* A text is a sequence of symbols.  A symbol is a character, or a run of  *)
(* characters that no operation of the scripts looks into (a word, the     *)
(* fixed wording of a template), kept as one element.                      *)
(* The library calls the scripts make (text splitter, vector store,        *)
(* prompt template, str.join) are modelled by what they compute for the    *)
(* arguments the scripts pass.                                             *)
(***************************************************************************)
EXTENDS Integers, Sequences, FiniteSets, TLC

VARIABLES
    script,             \* which script runs: "fix" or "debug"
    pc,                 \* position of the process
    docs,               \* docs = dir_loader.load(): the loaded documents
    split_docs,         \* split_docs = text_splitter.split_documents(docs)
    vectordb,           \* the FAISS store: sequence of [doc, vec]
    builds,             \* number of FAISS.from_documents calls made so far
    qi,                 \* index of the current question in test_questions
    question,           \* the loop variable `question`
    cfg_i,              \* retriever_configs tried so far (debug_rag_chain)
    retriever,          \* the retriever used by the latest retrieval
    qvec,               \* embedding of the query of the latest retrieval
    site,               \* code site of the latest retrieval
    retrieved_docs,     \* result of the latest get_relevant_documents
    formatted_context,  \* debug_rag_chain's local formatted_context
    context,            \* chain: output of retriever | format_docs
    prompt,             \* chain: output of the prompt template
    answer,             \* chain: output of llm | StrOutputParser()
    ret,                \* what debug_rag_chain returned for this question
    outcome,            \* what the loop printed for this question
    nRetr,              \* retrievals made by the chain for this question
    nGen,               \* generation calls made for this question
    raised              \* an external call raised during this question

vars == <<script, pc, docs, split_docs, vectordb, builds, qi, question, cfg_i,
          retriever, qvec, site, retrieved_docs, formatted_context, context,
          prompt, answer, ret, outcome, nRetr, nGen, raised>>

(***************************************************************************)
(* Bounds of the model.                                                    *)
(***************************************************************************)
\* Largest number of pages of a corpus of the pipeline runs.
MaxChunks == 8
\* Longest document text given to the splitter on its own.
MaxDocLen == 6
\* Longest text (question, chunk content) given to the prompt assembler.
MaxTextLen == 2
\* Most chunks given to format_docs on its own.
MaxDocs == 2

\* chunk_size=1000 and chunk_overlap=200 of both scripts, in model scale (the
\* texts of the model are a few symbols long): the splitter reads them only
\* through comparisons with lengths, so every path of it is taken at this
\* scale by texts of up to MaxDocLen symbols.
chunk_size == 4
chunk_overlap == 1

NL == "\n"

(***************************************************************************)
(* Texts.                                                                  *)
(***************************************************************************)
Range(s) == {s[i] : i \in 1..Len(s)}

\* len(text)
StrLen(s) == Len(s)

\* text[i:] for a 1-based i
Drop(s, i) == SubSeq(s, i, Len(s))

\* text.startswith(sep, i-1)
MatchAt(s, i, sep) ==
    /\ i + Len(sep) - 1 <= Len(s)
    /\ SubSeq(s, i, i + Len(sep) - 1) = sep

\* sep in text
Contains(s, sep) == \E i \in 1..(Len(s) + 1) : MatchAt(s, i, sep)

\* sep.join(parts)
RECURSIVE StrJoin(_, _)
StrJoin(sep, parts) ==
    IF parts = <<>> THEN <<>>
    ELSE IF Len(parts) = 1 THEN parts[1]
    ELSE parts[1] \o sep \o StrJoin(sep, Tail(parts))

Whitespace == {" ", NL}

\* text.strip()
RECURSIVE LStrip(_)
LStrip(s) ==
    IF s # <<>> /\ Head(s) \in Whitespace THEN LStrip(Tail(s)) ELSE s

RECURSIVE RStrip(_)
RStrip(s) ==
    IF s # <<>> /\ s[Len(s)] \in Whitespace
    THEN RStrip(SubSeq(s, 1, Len(s) - 1)) ELSE s

Strip(s) == RStrip(LStrip(s))

\* All texts of at most n symbols over the alphabet A.
RECURSIVE TextsUpTo(_, _)
TextsUpTo(A, n) ==
    IF n = 0 THEN {<<>>}
    ELSE LET shorter == TextsUpTo(A, n - 1)
         IN  shorter \cup {Append(t, a) : t \in shorter, a \in A}

(***************************************************************************)
(* The text splitter: RecursiveCharacterTextSplitter(chunk_size,           *)
(* chunk_overlap, length_function=len[, separators]), with the library's   *)
(* keep_separator=True and strip_whitespace=True.                          *)
(***************************************************************************)
\* separators_debug without the final "": no raw character cut.
separators_debug_nofallback == << <<NL, NL>>, <<NL>>, <<".", " ">>, <<" ">> >>

\* separators=["\n\n", "\n", ". ", " ", ""] of setup_components
separators_debug == << <<NL, NL>>, <<NL>>, <<".", " ">>, <<" ">>, <<>> >>

\* fix_rag_chain passes no separators: the splitter's ["\n\n", "\n", " ", ""]
separators_fix == << <<NL, NL>>, <<NL>>, <<" ">>, <<>> >>

text_splitter_separators(s) ==
    IF s = "debug" THEN separators_debug ELSE separators_fix

\* re.split(sep, text): the pieces between the leftmost, non-overlapping
\* occurrences of sep, scanning from position i; the open piece began at start.
RECURSIVE ReSplit(_, _, _, _)
ReSplit(text, sep, i, start) ==
    IF i + Len(sep) - 1 > Len(text) THEN << SubSeq(text, start, Len(text)) >>
    ELSE IF MatchAt(text, i, sep)
         THEN << SubSeq(text, start, i - 1) >>
              \o ReSplit(text, sep, i + Len(sep), i + Len(sep))
         ELSE ReSplit(text, sep, i + 1, start)

\* _split_text_with_regex(text, separator, keep_separator=True): each
\* separator stays at the front of the piece that follows it; the empty
\* separator cuts into characters; empty pieces are dropped.
split_text_with_regex(text, sep) ==
    IF sep = <<>> THEN [i \in 1..Len(text) |-> <<text[i]>>]
    ELSE LET pieces == ReSplit(text, sep, 1, 1)
             kept == [i \in 1..Len(pieces) |->
                         IF i = 1 THEN pieces[1] ELSE sep \o pieces[i]]
         IN  SelectSeq(kept, LAMBDA p : p # <<>>)

\* _join_docs(docs, separator): at most one chunk, none when it strips to "".
join_docs(current_doc, sep) ==
    LET text == Strip(StrJoin(sep, current_doc))
    IN  IF text = <<>> THEN <<>> ELSE <<text>>

\* The while loop of _merge_splits: drop pieces from the front of current_doc
\* until what is left fits the overlap and leaves room for the next piece.
RECURSIVE merge_pop(_, _, _, _)
merge_pop(current_doc, total, len, seplen) ==
    IF \/ total > chunk_overlap
       \/ /\ total + len + (IF Len(current_doc) > 0 THEN seplen ELSE 0)
                > chunk_size
          /\ total > 0
    THEN merge_pop(Tail(current_doc),
                   total - (StrLen(current_doc[1])
                            + (IF Len(current_doc) > 1 THEN seplen ELSE 0)),
                   len, seplen)
    ELSE <<current_doc, total>>

\* _merge_splits(splits, separator): the for loop from split i on.
RECURSIVE merge_loop(_, _, _, _, _, _)
merge_loop(splits, i, sep, out, current_doc, total) ==
    IF i > Len(splits) THEN out \o join_docs(current_doc, sep)
    ELSE LET d == splits[i]
             len == StrLen(d)
             seplen == StrLen(sep)
             emit == /\ total + len
                          + (IF Len(current_doc) > 0 THEN seplen ELSE 0)
                          > chunk_size
                     /\ Len(current_doc) > 0
             out1 == IF emit THEN out \o join_docs(current_doc, sep) ELSE out
             popped == IF emit THEN merge_pop(current_doc, total, len, seplen)
                       ELSE <<current_doc, total>>
             cur1 == Append(popped[1], d)
             total1 == popped[2] + len + (IF Len(cur1) > 1 THEN seplen ELSE 0)
         IN  merge_loop(splits, i + 1, sep, out1, cur1, total1)

merge_splits(splits, sep) == merge_loop(splits, 1, sep, <<>>, <<>>, 0)

\* The first separator that is "" or occurs in the text (0: none does).
RECURSIVE pick_separator(_, _, _)
pick_separator(text, separators, i) ==
    IF i > Len(separators) THEN 0
    ELSE IF separators[i] = <<>> \/ Contains(text, separators[i]) THEN i
    ELSE pick_separator(text, separators, i + 1)

\* _split_text(text, separators); split_loop is its for loop from split i on.
\* Pieces are merged with "" because the separators are kept in the pieces.
RECURSIVE split_text(_, _)
RECURSIVE split_loop(_, _, _, _, _)
split_text(text, separators) ==
    LET p == pick_separator(text, separators, 1)
        separator == IF p = 0 THEN separators[Len(separators)]
                     ELSE separators[p]
        new_separators == IF p = 0 \/ separators[p] = <<>> THEN <<>>
                          ELSE Drop(separators, p + 1)
    IN  split_loop(split_text_with_regex(text, separator), 1, new_separators,
                   <<>>, <<>>)

split_loop(splits, i, new_separators, final_chunks, good_splits) ==
    LET flushed == IF good_splits # <<>>
                   THEN final_chunks \o merge_splits(good_splits, <<>>)
                   ELSE final_chunks
    IN  IF i > Len(splits) THEN flushed
        ELSE IF StrLen(splits[i]) < chunk_size
             THEN split_loop(splits, i + 1, new_separators, final_chunks,
                             Append(good_splits, splits[i]))
             ELSE split_loop(splits, i + 1, new_separators,
                             flushed \o
                               (IF new_separators = <<>> THEN <<splits[i]>>
                                ELSE split_text(splits[i], new_separators)),
                             <<>>)

\* A Document: its text and the metadata that names its origin.
Document(text, source) == [page_content |-> text, source |-> source]

\* text_splitter.split_documents(docs): the chunks of every document, in
\* order, each carrying its document's metadata.
RECURSIVE split_documents(_, _)
split_documents(ds, seps) ==
    IF ds = <<>> THEN <<>>
    ELSE LET chunks == split_text(ds[1].page_content, seps)
         IN  [i \in 1..Len(chunks) |-> Document(chunks[i], ds[1].source)]
             \o split_documents(Tail(ds), seps)

(***************************************************************************)
(* The vector store and the retrievers.  An embedding is a point of Emb;   *)
(* FAISS ranks by L2 distance, nearest first.                              *)
(***************************************************************************)
Emb == {0, 1}

Dist(u, v) == (u - v) * (u - v)

\* FAISS.from_documents(split_docs, embedding_model), vecs the embeddings the
\* embedding model returned for the chunks.
from_documents(chunks, vecs) ==
    [i \in 1..Len(chunks) |-> [doc |-> chunks[i], vec |-> vecs[i]]]

\* Number of results of a search that is given no k (the library's default).
DefaultK == 4
\* Number of candidates an mmr search fetches (the library's default).
DefaultFetchK == 20

\* The entry of S nearest to qv, the earlier one on equal distance.
Nearest(store, qv, S) ==
    CHOOSE i \in S : \A j \in S :
        \/ Dist(store[i].vec, qv) < Dist(store[j].vec, qv)
        \/ Dist(store[i].vec, qv) = Dist(store[j].vec, qv) /\ i <= j

\* Positions of the k entries of S nearest to qv, nearest first.
RECURSIVE search_positions(_, _, _, _)
search_positions(store, qv, S, k) ==
    IF k = 0 \/ S = {} THEN <<>>
    ELSE LET i == Nearest(store, qv, S)
         IN  <<i>> \o search_positions(store, qv, S \ {i}, k - 1)

\* vectordb.similarity_search(query, k)
similarity_search(store, qv, k) ==
    LET pos == search_positions(store, qv, 1..Len(store), k)
    IN  [n \in 1..Len(pos) |-> store[pos[n]].doc]

\* Twice the mmr score (lambda_mult = 0.5) of entry i against the chosen ones.
MmrScore(store, qv, i, chosen) ==
    LET redundancy == CHOOSE m \in {0 - Dist(store[i].vec, store[j].vec) :
                                       j \in Range(chosen)} :
                        \A j \in Range(chosen) :
                            m >= 0 - Dist(store[i].vec, store[j].vec)
    IN  (0 - Dist(store[i].vec, qv)) - redundancy

\* maximal_marginal_relevance: greedy choice among the candidates left.
RECURSIVE mmr_select(_, _, _, _, _)
mmr_select(store, qv, left, chosen, k) ==
    IF Len(chosen) >= k \/ left = {} THEN chosen
    ELSE LET best == CHOOSE i \in left : \A j \in left :
                        \/ MmrScore(store, qv, i, chosen)
                             > MmrScore(store, qv, j, chosen)
                        \/ /\ MmrScore(store, qv, i, chosen)
                                = MmrScore(store, qv, j, chosen)
                           /\ i <= j
         IN  mmr_select(store, qv, left \ {best}, Append(chosen, best), k)

\* vectordb.max_marginal_relevance_search(query, k)
max_marginal_relevance_search(store, qv, k) ==
    LET fetched == search_positions(store, qv, 1..Len(store), DefaultFetchK)
        first == IF fetched = <<>> \/ k = 0 THEN <<>> ELSE <<fetched[1]>>
        pos == mmr_select(store, qv, Range(fetched) \ Range(first), first, k)
    IN  [n \in 1..Len(pos) |-> store[pos[n]].doc]

NoKwargs == [x \in {} |-> 0]

\* vectordb.as_retriever(**kwargs): the retriever keeps the keyword arguments
\* search_type and search_kwargs; it has no field for any other keyword.
as_retriever(kwargs) ==
    [search_type |-> IF "search_type" \in DOMAIN kwargs
                     THEN kwargs.search_type ELSE "similarity",
     search_kwargs |-> IF "search_kwargs" \in DOMAIN kwargs
                       THEN kwargs.search_kwargs ELSE NoKwargs]

\* retriever.get_relevant_documents(question), qv the question's embedding:
\* the search of the retriever's search_type, called with **search_kwargs.
get_relevant_documents(r, store, qv) ==
    LET k == IF "k" \in DOMAIN r.search_kwargs THEN r.search_kwargs.k
             ELSE DefaultK
    IN  IF r.search_type = "mmr"
        THEN max_marginal_relevance_search(store, qv, k)
        ELSE similarity_search(store, qv, k)

\* retriever_configs of debug_rag_chain
retriever_configs ==
    << [k |-> 3, search_type |-> "similarity"],
       [k |-> 5, search_type |-> "similarity"],
       [k |-> 7, search_type |-> "similarity"],
       [k |-> 3, search_type |-> "mmr"] >>

\* as_retriever(search_type="similarity", search_kwargs={"k": 5}) of
\* fix_rag_chain: the retriever of the chain of script "fix"
fix_retriever_kwargs ==
    [search_type |-> "similarity", search_kwargs |-> [k |-> 5]]

\* as_retriever(search_kwargs={"k": 5}) of test_fixed_rag
test_retriever_kwargs == [search_kwargs |-> [k |-> 5]]

\* best_retriever_kwargs with the count of the third retriever_configs entry.
best_retriever_kwargs_k7 ==
    [search_type |-> "similarity", search_kwargs |-> [k |-> 7]]

\* as_retriever(search_type="similarity", search_kwargs={"k": 5}) of
\* debug_rag_chain: best_retriever, also the retriever of its chain
best_retriever_kwargs ==
    [search_type |-> "similarity", search_kwargs |-> [k |-> 5]]

chain_retriever_kwargs(s) ==
    IF s = "debug" THEN best_retriever_kwargs ELSE fix_retriever_kwargs

(***************************************************************************)
(* The prompt.                                                             *)
(***************************************************************************)
\* format_docs joining with a single newline.
format_docs_single_newline(ds) ==
    StrJoin(<<NL>>, [i \in 1..Len(ds) |-> ds[i].page_content])

\* format_docs(docs): "\n\n".join([doc.page_content for doc in docs])
format_docs(ds) ==
    StrJoin(<<NL, NL>>, [i \in 1..Len(ds) |-> ds[i].page_content])

\* fixed_prompt_template of fix_rag_chain
fixed_prompt_template ==
    << "\nAnswer the question based on the context provided below.\nIf the context does not contain sufficient information, respond with:\n\"I do not have enough information to answer this question\"\n\nContext: ",
       "{", "context", "}",
       "\n\nQuestion: ",
       "{", "question", "}",
       "\n\nAnswer:" >>

\* improved_prompt_template of create_improved_prompt
improved_prompt_template ==
    << "\nYou are a helpful AI assistant. Answer the question based on the context provided below.\nIf the context does not contain sufficient information to answer the question accurately, respond with:\n\"I do not have enough information to answer this question accurately.\"\n\nGuidelines:\n- Use only the information provided in the context\n- Be specific and detailed in your response\n- If the context contains relevant data, cite it appropriately\n- If the question is not addressed in the context, say so clearly\n- Provide a comprehensive answer based on the available context\n\nContext: ",
       "{", "context", "}",
       "\n\nQuestion: ",
       "{", "question", "}",
       "\n\nAnswer:" >>

prompt_template(s) ==
    IF s = "debug" THEN improved_prompt_template ELSE fixed_prompt_template

\* Position of the first "}" of the template at or after i.
RECURSIVE closing_brace(_, _)
closing_brace(template, i) ==
    IF template[i] = "}" THEN i ELSE closing_brace(template, i + 1)

\* template.format(**kwargs) from position i on: one scan of the template,
\* each {name} replaced by kwargs[name]; what is put in is not scanned again.
RECURSIVE format_from(_, _, _)
format_from(template, i, kwargs) ==
    IF i > Len(template) THEN <<>>
    ELSE IF template[i] = "{"
         THEN LET j == closing_brace(template, i + 1)
              IN  kwargs[template[i + 1]] \o format_from(template, j + 1, kwargs)
         ELSE <<template[i]>> \o format_from(template, i + 1, kwargs)

\* prompt_format with the two values exchanged.
prompt_format_swapped(template, kwargs) ==
    format_from(template, 1,
                [context |-> kwargs.question, question |-> kwargs.context])

\* PromptTemplate(template, input_variables=["context", "question"]) applied
\* to {"context": ..., "question": ...}
prompt_format(template, kwargs) == format_from(template, 1, kwargs)

(***************************************************************************)
(* The scripts.                                                            *)
(***************************************************************************)
\* test_questions of test_fixed_rag
test_questions_fix ==
    << <<"can you tell me how Reward Modeling works?">>,
       <<"What is LoRA?">>,
       <<"What are the main findings in the Llama 2 paper?">> >>

\* test_questions of test_different_questions
test_questions_debug ==
    << <<"can you tell me how Reward Modeling works?">>,
       <<"What is LoRA?">>,
       <<"What are the main findings in the Llama 2 paper?">>,
       <<"How does fine-tuning work?">>,
       <<"What are the benchmark results?">> >>

test_questions(s) ==
    IF s = "debug" THEN test_questions_debug ELSE test_questions_fix

\* What the hosted model may answer: some text, or the phrase the template
\* asks for when the context is insufficient.
LLMOutputs ==
    { <<"generated answer">>,
      <<"I do not have enough information to answer this question">> }

Scripts == {"fix", "debug"}

NoRetriever == [search_type |-> "none", search_kwargs |-> NoKwargs]
Pending == [kind |-> "pending", value |-> <<>>]
ReturnedNone == [kind |-> "none", value |-> <<>>]
Propagated == [kind |-> "raised", value |-> <<>>]
Returned(text) == [kind |-> "value", value |-> text]

\* The corpora of the pipeline runs: n pages, each short enough to be one chunk.
Page(i) == Document(<<"page " \o ToString(i)>>, i)
Corpora == {[i \in 1..n |-> Page(i)] : n \in 0..MaxChunks}

corpusVars == <<script, docs, split_docs, vectordb, builds>>
loopVars == <<qi, question>>
retrievalVars == <<retriever, qvec, site, retrieved_docs>>
chainVars == <<context, prompt, answer>>
countVars == <<nRetr, nGen>>

\* State of a process that has run nothing yet, at position p.
Fresh(p) ==
    /\ pc = p
    /\ split_docs = <<>>
    /\ vectordb = <<>>
    /\ builds = 0
    /\ qi = 0
    /\ question = <<>>
    /\ cfg_i = 0
    /\ retriever = NoRetriever
    /\ qvec = 0
    /\ site = "none"
    /\ retrieved_docs = <<>>
    /\ formatted_context = <<>>
    /\ context = <<>>
    /\ prompt = <<>>
    /\ answer = <<>>
    /\ ret = Pending
    /\ outcome = "pending"
    /\ nRetr = 0
    /\ nGen = 0
    /\ raised = FALSE

Init ==
    /\ script \in Scripts
    /\ docs \in Corpora
    /\ Fresh("setup")

\* fix_rag_chain() / setup_components(): split the loaded documents and build
\* the vector store from the chunks.  The embedding call may raise, and an
\* empty list of chunks cannot be indexed; nothing catches either.
Setup ==
    /\ pc = "setup"
    /\ LET sd == split_documents(docs, text_splitter_separators(script))
       IN  /\ split_docs' = sd
           /\ \/ /\ Len(sd) > 0
                 /\ \E vecs \in [1..Len(sd) -> Emb] :
                        vectordb' = from_documents(sd, vecs)
                 /\ builds' = builds + 1
                 /\ pc' = "loop"
              \/ /\ pc' = "setup_failed"
                 /\ UNCHANGED <<vectordb, builds>>
    /\ UNCHANGED <<script, docs, loopVars, cfg_i, retrievalVars,
                   formatted_context, chainVars, ret, outcome, countVars,
                   raised>>

\* A new iteration: the loop variable is bound to the next question and
\* nothing of the previous iteration is kept.
BeginIteration ==
    /\ qi < Len(test_questions(script))
    /\ qi' = qi + 1
    /\ question' = test_questions(script)[qi + 1]
    /\ pc' = IF script = "debug" THEN "d_config" ELSE "t_retrieve"
    /\ cfg_i' = 0
    /\ retriever' = NoRetriever
    /\ qvec' = 0
    /\ site' = "none"
    /\ retrieved_docs' = <<>>
    /\ formatted_context' = <<>>
    /\ context' = <<>>
    /\ prompt' = <<>>
    /\ answer' = <<>>
    /\ ret' = Pending
    /\ outcome' = "pending"
    /\ nRetr' = 0
    /\ nGen' = 0
    /\ raised' = FALSE

\* NextQuestion with the next iteration begun while the model call of the
\* current one is still outstanding.
NextQuestionPipelined ==
    /\ pc \in {"loop", "c_llm"}
    /\ BeginIteration
    /\ UNCHANGED corpusVars

\* NextQuestion with the vector store built again for every question.
NextQuestionRebuild ==
    /\ pc = "loop"
    /\ BeginIteration
    /\ builds' = builds + 1
    /\ \E vecs \in [1..Len(split_docs) -> Emb] :
           vectordb' = from_documents(split_docs, vecs)
    /\ UNCHANGED <<script, docs, split_docs>>

\* for question in test_questions: the next iteration begins.
NextQuestion ==
    /\ pc = "loop"
    /\ BeginIteration
    /\ UNCHANGED corpusVars

\* The list is exhausted: the script ends.
Finish ==
    /\ pc = "loop"
    /\ qi = Len(test_questions(script))
    /\ pc' = "done"
    /\ UNCHANGED <<corpusVars, loopVars, cfg_i, retrievalVars,
                   formatted_context, chainVars, ret, outcome, countVars,
                   raised>>

\* retriever = vectordb.as_retriever(**kwargs);
\* retriever.get_relevant_documents(question) returns, at code site s.
Retrieve(kwargs, s) ==
    \E qv \in Emb :
        /\ retriever' = as_retriever(kwargs)
        /\ qvec' = qv
        /\ site' = s
        /\ retrieved_docs' = get_relevant_documents(as_retriever(kwargs),
                                                    vectordb, qv)

\* test_fixed_rag, inside its try: the retrieval made for the printout.
\* except Exception: the error is printed and the loop goes on.
TestRetrieve ==
    /\ pc = "t_retrieve"
    /\ \/ /\ Retrieve(test_retriever_kwargs, "test")
          /\ pc' = "c_retrieve"
          /\ UNCHANGED <<outcome, raised>>
       \/ /\ raised' = TRUE
          /\ outcome' = "error"
          /\ pc' = "loop"
          /\ UNCHANGED retrievalVars
    /\ UNCHANGED <<corpusVars, loopVars, cfg_i, formatted_context, chainVars,
                   ret, countVars>>

\* debug_rag_chain, the loop over retriever_configs: one configuration.
\* No try encloses it: an exception leaves debug_rag_chain and the script.
DebugConfigRetrieve ==
    /\ pc = "d_config"
    /\ \/ /\ Retrieve(retriever_configs[cfg_i + 1], "config")
          /\ cfg_i' = cfg_i + 1
          /\ pc' = IF cfg_i + 1 < Len(retriever_configs) THEN "d_config"
                   ELSE "d_best"
          /\ UNCHANGED <<ret, raised>>
       \/ /\ raised' = TRUE
          /\ ret' = Propagated
          /\ pc' = "aborted"
          /\ UNCHANGED <<cfg_i, retrievalVars>>
    /\ UNCHANGED <<corpusVars, loopVars, formatted_context, chainVars,
                   outcome, countVars>>

\* debug_rag_chain: best_retriever and its retrieval, also outside the try.
DebugBestRetrieve ==
    /\ pc = "d_best"
    /\ \/ /\ Retrieve(best_retriever_kwargs, "best")
          /\ pc' = "d_format"
          /\ UNCHANGED <<ret, raised>>
       \/ /\ raised' = TRUE
          /\ ret' = Propagated
          /\ pc' = "aborted"
          /\ UNCHANGED retrievalVars
    /\ UNCHANGED <<corpusVars, loopVars, cfg_i, formatted_context, chainVars,
                   outcome, countVars>>

\* debug_rag_chain: formatted_context = format_docs(retrieved_docs), then the
\* chain is built.
DebugFormat ==
    /\ pc = "d_format"
    /\ formatted_context' = format_docs(retrieved_docs)
    /\ pc' = "c_retrieve"
    /\ UNCHANGED <<corpusVars, loopVars, cfg_i, retrievalVars, chainVars,
                   ret, outcome, countVars, raised>>

\* ChainRaise with the call tried again instead of reported.
ChainRaiseRetry ==
    /\ raised' = TRUE
    /\ pc' = "c_retrieve"
    /\ UNCHANGED <<outcome, ret>>

\* An exception inside rag_chain.invoke(question): both scripts call it in a
\* try.  test_fixed_rag prints the error; debug_rag_chain prints it and
\* returns None.
ChainRaise ==
    /\ raised' = TRUE
    /\ outcome' = "error"
    /\ ret' = IF script = "debug" THEN ReturnedNone ELSE ret
    /\ pc' = "loop"

\* rag_chain.invoke(question), step "context": retriever
ChainRetrieve ==
    /\ pc = "c_retrieve"
    /\ nRetr' = nRetr + 1
    /\ \/ /\ Retrieve(chain_retriever_kwargs(script), "chain")
          /\ pc' = "c_format"
          /\ UNCHANGED <<ret, outcome, raised>>
       \/ /\ ChainRaise
          /\ UNCHANGED retrievalVars
    /\ UNCHANGED <<corpusVars, loopVars, cfg_i, formatted_context, chainVars,
                   nGen>>

\* rag_chain.invoke(question), step "context": ... | format_docs
ChainFormatDocs ==
    /\ pc = "c_format"
    /\ context' = format_docs(retrieved_docs)
    /\ pc' = "c_prompt"
    /\ UNCHANGED <<corpusVars, loopVars, cfg_i, retrievalVars,
                   formatted_context, prompt, answer, ret, outcome, countVars,
                   raised>>

\* rag_chain.invoke(question), step | prompt, "question" passed through
ChainPrompt ==
    /\ pc = "c_prompt"
    /\ prompt' = prompt_format(prompt_template(script),
                               [context |-> context, question |-> question])
    /\ pc' = "c_llm"
    /\ UNCHANGED <<corpusVars, loopVars, cfg_i, retrievalVars,
                   formatted_context, context, answer, ret, outcome,
                   countVars, raised>>

\* rag_chain.invoke(question), steps | llm | StrOutputParser(); the answer is
\* printed (and returned by debug_rag_chain).
ChainLLM ==
    /\ pc = "c_llm"
    /\ nGen' = nGen + 1
    /\ \/ /\ \E text \in LLMOutputs :
                 /\ answer' = text
                 /\ ret' = IF script = "debug" THEN Returned(text) ELSE ret
          /\ outcome' = "answer"
          /\ pc' = "loop"
          /\ UNCHANGED raised
       \/ /\ ChainRaise
          /\ UNCHANGED answer
    /\ UNCHANGED <<corpusVars, loopVars, cfg_i, retrievalVars,
                   formatted_context, context, prompt, nRetr>>

Next ==
    \/ Setup
    \/ NextQuestion
    \/ Finish
    \/ TestRetrieve
    \/ DebugConfigRetrieve
    \/ DebugBestRetrieve
    \/ DebugFormat
    \/ ChainRetrieve
    \/ ChainFormatDocs
    \/ ChainPrompt
    \/ ChainLLM

Spec == Init /\ [][Next]_vars

(***************************************************************************)
(* The prompt assembly on its own: the two steps of the chain that build   *)
(* the prompt, from any retrieved chunks and any question.                 *)
(***************************************************************************)
ChunkAlphabet == {"a", NL}
QuestionAlphabet == {"q", "{"}

PromptChunks ==
    {Document(t, 1) : t \in TextsUpTo(ChunkAlphabet, MaxTextLen)}

InitPrompt ==
    /\ script \in Scripts
    /\ docs = <<>>
    /\ pc = "c_format"
    /\ split_docs = <<>>
    /\ vectordb = <<>>
    /\ builds = 0
    /\ qi = 0
    /\ question \in TextsUpTo(QuestionAlphabet, MaxTextLen)
    /\ cfg_i = 0
    /\ retriever = NoRetriever
    /\ qvec = 0
    /\ site = "none"
    /\ retrieved_docs \in TextsUpTo(PromptChunks, MaxDocs)
    /\ formatted_context = <<>>
    /\ context = <<>>
    /\ prompt = <<>>
    /\ answer = <<>>
    /\ ret = Pending
    /\ outcome = "pending"
    /\ nRetr = 0
    /\ nGen = 0
    /\ raised = FALSE

NextPrompt ==
    \/ ChainFormatDocs
    \/ ChainPrompt

SpecPrompt == InitPrompt /\ [][NextPrompt]_vars

(***************************************************************************)
(* The splitter on its own: setup on one loaded document of any text.      *)
(***************************************************************************)
SplitAlphabet == {"a", ".", " ", NL}

InitSplit ==
    /\ script \in Scripts
    /\ docs \in {<<Document(t, 1)>> : t \in TextsUpTo(SplitAlphabet, MaxDocLen)}
    /\ Fresh("setup")

NextSplit ==
    \/ Setup

SpecSplit == InitSplit /\ [][NextSplit]_vars

(***************************************************************************)
(* Properties.                                                             *)
(***************************************************************************)
Terminated == pc \in {"done", "aborted"}

\* The embedding stored with chunk d.
VecOf(d) == (CHOOSE e \in Range(vectordb) : e.doc = d).vec

\* Position in format_docs(ds) at which the content of chunk i begins.
RECURSIVE ChunkOffset(_, _)
ChunkOffset(ds, i) ==
    IF i = 1 THEN 1
    ELSE ChunkOffset(ds, i - 1) + Len(ds[i - 1].page_content) + 2

\* C1: in both scripts' question loops every exception raised while a
\* question is processed is caught and the loop goes on, so a run that went
\* past setup ends only after every question of the list has been started.
C1_EveryQuestionStarted ==
    Terminated => qi = Len(test_questions(script))

\* C2: debug_rag_chain never propagates an exception of an external call: it
\* returns the generated answer when every external call succeeded and None
\* when one of them raised.
C2_DebugNeverPropagates ==
    script = "debug" =>
        /\ ret.kind # "raised"
        /\ ret.kind # "pending" =>
               IF raised THEN ret = ReturnedNone ELSE ret = Returned(answer)

\* C3: questions are processed one at a time in list order, and within a
\* question retrieval comes before prompt assembly, assembly before
\* generation, and the answer after generation; no question starts before the
\* previous one has produced its answer or reported its error.
C3_StepOrder ==
    [][ /\ (nGen' # nGen /\ nGen' > 0) =>
               /\ pc = "c_llm"
               /\ qi' = qi
               /\ site = "chain"
               /\ nRetr = 1
               /\ context = format_docs(retrieved_docs)
               /\ prompt = prompt_format(prompt_template(script),
                             [context |-> context, question |-> question])
        /\ (prompt' # prompt /\ prompt' # <<>>) =>
               /\ site = "chain"
               /\ nGen = 0
        /\ (outcome' = "answer" /\ outcome # "answer") =>
               /\ nGen' = 1
               /\ answer' \in LLMOutputs
        /\ qi' # qi =>
               /\ pc = "loop"
               /\ qi' = qi + 1
               /\ question' = test_questions(script)[qi + 1]
               /\ qi > 0 => outcome \in {"answer", "error"}
      ]_vars

C3_Witness ==
    /\ pc = "loop"
    /\ qi = 2
    /\ outcome = "answer"
    /\ nGen = 1
    /\ Len(retrieved_docs) > 1

\* C4: the vector store is built exactly once, before the first question, and
\* is read-only afterwards: past setup it holds exactly the chunks
\* split_documents produced from the loaded documents, and no step of any
\* question changes, extends or rebuilds it.
C4_IndexBuiltOnceThenReadOnly ==
    [][ /\ pc = "setup" =>
               /\ builds = 0
               /\ qi = 0
               /\ split_docs' = split_documents(docs,
                                    text_splitter_separators(script))
        /\ pc' \notin {"setup", "setup_failed"} =>
               /\ builds' = 1
               /\ qi' > 0 => builds = 1
               /\ Len(vectordb') = Len(split_docs')
               /\ \A i \in 1..Len(split_docs') :
                      vectordb'[i].doc = split_docs'[i]
        /\ pc # "setup" =>
               /\ vectordb' = vectordb
               /\ builds' = builds
               /\ split_docs' = split_docs
               /\ docs' = docs
      ]_vars

C4_Witness ==
    /\ pc = "loop"
    /\ qi = 3
    /\ outcome = "error"
    /\ builds = 1
    /\ Len(vectordb) = Len(split_docs)
    /\ Len(vectordb) > 5

\* C5: no retry and no caching: for each question the chain retrieves at most
\* once and calls the model at most once, exactly once when its retrieval
\* succeeded; a failed call is not repeated; and every question starts with
\* no retrieval, no generation and no answer of an earlier question.
C5_NoRetryNoCache ==
    /\ nGen <= 1
    /\ nRetr <= 1
    /\ nGen = 1 => (nRetr = 1 /\ site = "chain")
    /\ (pc \in {"loop", "done"} /\ site = "chain") => nGen = 1
    /\ outcome = "answer" => (nGen = 1 /\ nRetr = 1 /\ answer \in LLMOutputs)
    /\ pc \in {"t_retrieve", "d_config", "d_best", "d_format", "c_retrieve"} =>
           (nGen = 0 /\ nRetr = 0 /\ answer = <<>> /\ context = <<>>)

C5_Witness ==
    /\ pc = "loop"
    /\ qi = 2
    /\ outcome = "error"
    /\ site = "chain"
    /\ nGen = 1

\* C6: a retrieval of a k=5 retriever (the chain's, and the ones made for the
\* printouts) returns at most 5 chunks and no more than the corpus holds,
\* every one a chunk of the corpus, in order of descending similarity to the
\* question (ascending distance).
C6_TopFiveRanked ==
    site \in {"test", "best", "chain"} =>
        /\ Len(retrieved_docs) <= 5
        /\ Len(retrieved_docs) <= Len(split_docs)
        /\ \A i \in 1..Len(retrieved_docs) :
               retrieved_docs[i] \in Range(split_docs)
        /\ \A i, j \in 1..Len(retrieved_docs) :
               i < j => Dist(VecOf(retrieved_docs[i]), qvec)
                          <= Dist(VecOf(retrieved_docs[j]), qvec)

C6_Witness ==
    /\ site = "chain"
    /\ Len(split_docs) > 5
    /\ Len(retrieved_docs) = 5
    /\ Dist(VecOf(retrieved_docs[1]), qvec) < Dist(VecOf(retrieved_docs[5]), qvec)

\* C7: the prompt the chain assembles is the template with the joined
\* context, unmodified, in place of the Context placeholder and the question,
\* unmodified, in place of the Question placeholder; it contains both.
C7_PromptHoldsContextAndQuestion ==
    pc = "c_llm" =>
        LET t == prompt_template(script)
        IN  /\ context = format_docs(retrieved_docs)
            /\ prompt = <<t[1]>> \o context \o <<t[5]>> \o question \o <<t[9]>>
            /\ Contains(prompt, context)
            /\ Contains(prompt, question)

C7_Witness ==
    /\ pc = "c_llm"
    /\ Len(retrieved_docs) = 2
    /\ context # <<>>
    /\ "{" \in Range(question)
    /\ context # question

\* C8: format_docs returns the chunks' contents in order, two newlines
\* between consecutive chunks and nothing before the first or after the
\* last: the empty text for no chunk, the content itself for one chunk.
C8_FormatDocsJoinsWithBlankLine ==
    pc \in {"c_prompt", "c_llm"} =>
        LET ds == retrieved_docs
            n == Len(ds)
        IN  /\ n = 0 => context = <<>>
            /\ n = 1 => context = ds[1].page_content
            /\ n >= 1 => Len(context)
                           = ChunkOffset(ds, n) + Len(ds[n].page_content) - 1
            /\ \A i \in 1..n :
                   SubSeq(context, ChunkOffset(ds, i),
                          ChunkOffset(ds, i) + Len(ds[i].page_content) - 1)
                     = ds[i].page_content
            /\ \A i \in 1..(n - 1) :
                   SubSeq(context, ChunkOffset(ds, i + 1) - 2,
                          ChunkOffset(ds, i + 1) - 1) = <<NL, NL>>

C8_Witness ==
    /\ pc = "c_prompt"
    /\ Len(retrieved_docs) = 2
    /\ retrieved_docs[1].page_content # <<>>
    /\ retrieved_docs[2].page_content # <<>>
    /\ Len(context) >= 4

\* C9: no chunk the splitter of either script produces is longer than
\* chunk_size, also when the document has no separator within that length.
C9_NoChunkExceedsChunkSize ==
    pc # "setup" =>
        \A i \in 1..Len(split_docs) :
            StrLen(split_docs[i].page_content) <= chunk_size

C9_Witness ==
    /\ pc = "loop"
    /\ StrLen(docs[1].page_content) > chunk_size
    /\ Range(docs[1].page_content) = {"a"}
    /\ Len(split_docs) >= 2

\* C10: in debug_rag_chain's loop over retriever_configs the count k and the
\* selection mode of each configuration are the ones the retrieval applies:
\* it returns the top k chunks (all of them when the corpus holds fewer).
C10_ConfigCountApplied ==
    (site = "config" /\ Len(split_docs) > 7) =>
        /\ retriever.search_type = retriever_configs[cfg_i].search_type
        /\ Len(retrieved_docs) = retriever_configs[cfg_i].k

====
